---- MODULE Spec2Model ----
(***************************************************************************)
(* Two WebRTC signalling servers built on aiohttp and aiortc:              *)
(*   webrtc-live/server.py               one route /offer, role in body    *)
(*   Webcam Screen By WebRTC/server.py   /offer/publisher, /offer/viewer   *)
(* One process runs one of the two scripts; the variable server says which.*)
(* Every request is identified by a number, and the RTCPeerConnection a    *)
(* handler creates carries the number of its request.  A handler is a      *)
(* coroutine: it is atomic between two awaits, and pos[r] is the await it   *)
(* is suspended in ("srd", "ca", "sld": setRemoteDescription, createAnswer, *)
(* setLocalDescription; "json": request.json() of the Webcam viewer).      *)
(*                                                                         *)
(* What the library does is the environment: it emits track while          *)
(* setRemoteDescription applies the offer, changes the ICE state of a      *)
(* connection once its answer is set, lets any negotiation step raise, and *)
(* on close() leaves the connection closed, emitting the change to closed. *)
(*                                                                         *)
(* Three specifications share the actions:                                 *)
(*   Spec        the life of the connections (registry, ICE, shutdown)     *)
(*   SpecMedia   the tracks (caches, what a viewer is handed)              *)
(*   SpecFrames  the frames a Webcam viewer pulls                          *)
(***************************************************************************)
EXTENDS Integers, Sequences, FiniteSets, TLC

\* ---------------------------------------------------------------- bounds
MaxConn == 2
MaxPts == 2

Conn == 1..MaxConn
None == 0
Kinds == {"audio", "video"}
NoTrack == <<0, "none">>
Tracks == Conn \X Kinds
Bad == {"failed", "disconnected", "closed"}
ResParams == {"1080", "720", "480", "missing", "360"}

VARIABLES
    server,              \* "live" or "cam": the script this process runs
    pcs,                 \* the registry of peer connections
    pos,                 \* where the handler of each request is
    role,                \* "broadcaster"/"viewer" (live), "publisher"/"viewer" (cam)
    ice,                 \* pc.iceConnectionState
    closed,              \* an awaited pc.close() has returned
    iceTasks,            \* live: an on_ice coroutine is scheduled and not yet started
    iceClosing,          \* live: an on_ice coroutine is suspended in await pc.close()
    broadcaster_tracks,  \* live: the dict kind -> track, in insertion order
    state,               \* cam: publisher_pc, publisher_video, publisher_audio
    down_video,          \* cam: the local down_video of a viewer handler
    senders,             \* the tracks the server added to each connection
    recvd,               \* the tracks the track event has delivered
    ended,               \* live: the tracks whose ended event has fired
    lastRecv,            \* live: per kind, the track delivered last
    shut,                \* on_shutdown: "idle", "gather" or "done"
    atShutdown,          \* the registry as on_shutdown found it
    waiting,             \* coros: the close() calls gather still waits for
    res,                 \* cam: the res query parameter of a viewer's request
    log,                 \* per request, what its handler did, in order
    lastFrame            \* the last frame a DownscaleTrack returned

vars == <<server, pcs, pos, role, ice, closed, iceTasks, iceClosing,
          broadcaster_tracks, state, down_video, senders, recvd, ended,
          lastRecv, shut, atShutdown, waiting, res, log, lastFrame>>

\* ---------------------------------------------------------------- dict
DictKeys(d) == {d[i].kind : i \in DOMAIN d}

DictGet(d, k) ==
    IF k \in DictKeys(d)
    THEN (CHOOSE e \in {d[i] : i \in DOMAIN d} : e.kind = k).track
    ELSE NoTrack

\* broadcaster_tracks[k] = t
DictSet(d, k, t) ==
    IF k \in DictKeys(d)
    THEN [i \in DOMAIN d |-> IF d[i].kind = k THEN [kind |-> k, track |-> t] ELSE d[i]]
    ELSE Append(d, [kind |-> k, track |-> t])

\* broadcaster_tracks.pop(k, None)
DictPop(d, k) == SelectSeq(d, LAMBDA e : e.kind # k)

\* ---------------------------------------------------------------- senders
Relay(t) == [type |-> "relay", source |-> t, w |-> 0, h |-> 0]
Raw(t) == [type |-> "raw", source |-> t, w |-> 0, h |-> 0]

\* DownscaleTrack(source_track, width, height)
DownscaleTrack(t, width, height) ==
    [type |-> "downscale", source |-> t, w |-> width, h |-> height]

\* request.query.get("res", "720"); "missing" is a query without res
Query(q) == IF q = "missing" THEN "720" ELSE q

\* sizes.get(res, (1280, 720))
Sizes(q) ==
    CASE q = "1080" -> <<1920, 1080>>
      [] q = "720"  -> <<1280, 720>>
      [] q = "480"  -> <<854, 480>>
      [] OTHER        -> <<1280, 720>>

\* the frames a publisher's track returns
SrcFrames ==
    [width : {1920}, height : {1080}, pts : 1..MaxPts, time_base : {30, 90000}]

RecvNoPts(d, frame) ==
    [width |-> d.w, height |-> d.h, pts |-> 0, time_base |-> frame.time_base]

\* DownscaleTrack.recv applied to the frame the source returned
Recv(d, frame) ==
    [width |-> d.w, height |-> d.h, pts |-> frame.pts, time_base |-> frame.time_base]

NoFrame == [viewer |-> None, src |-> [width |-> 0, height |-> 0, pts |-> 0, time_base |-> 0],
            out |-> [width |-> 0, height |-> 0, pts |-> 0, time_base |-> 0]]

\* for kind, original in broadcaster_tracks.items(): pc.addTrack(relay.subscribe(original))
RelayAll(d) == [i \in DOMAIN d |-> Relay(d[i].track)]

Logged(r, ev) == [log EXCEPT ![r] = Append(@, ev)]
LoggedN(r, ev, n) == [log EXCEPT ![r] = @ \o [i \in 1..n |-> ev]]

NoState == [publisher_pc |-> None, publisher_video |-> NoTrack, publisher_audio |-> NoTrack]

Init ==
    /\ server \in {"live", "cam"}
    /\ pcs = {}
    /\ pos = [r \in Conn |-> "idle"]
    /\ role = [r \in Conn |-> "none"]
    /\ ice = [r \in Conn |-> "new"]
    /\ closed = [r \in Conn |-> FALSE]
    /\ iceTasks = [r \in Conn |-> FALSE]
    /\ iceClosing = [r \in Conn |-> FALSE]
    /\ broadcaster_tracks = <<>>
    /\ state = NoState
    /\ down_video = [r \in Conn |-> DownscaleTrack(NoTrack, 0, 0)]
    /\ senders = [r \in Conn |-> <<>>]
    /\ recvd = {}
    /\ ended = {}
    /\ lastRecv = [k \in Kinds |-> NoTrack]
    /\ shut = "idle"
    /\ atShutdown = {}
    /\ res = [r \in Conn |-> ""]
    /\ waiting = {}
    /\ log = [r \in Conn |-> <<>>]
    /\ lastFrame = NoFrame

\* The process ends when on_shutdown has returned.
Running == shut # "done"

\* Requests are numbered in the order their handlers first act.
Fresh(r) == pos[r] = "idle" /\ \A q \in Conn : q < r => pos[q] # "idle"

\* ---------------------------------------------------------------- ICE events
\* The library moves iceConnectionState from new to completed or failed and
\* from completed to disconnected or failed; only close() moves it on, to
\* closed.
IceNext(s) ==
    CASE s = "new"          -> {"completed", "failed"}
      [] s = "completed"    -> {"disconnected", "failed"}
      [] OTHER              -> {}

\* on_ice_state of both Webcam handlers: pcs.discard(pc) on a bad state
OnIceStatePcs(c, s, P) == IF s \in Bad THEN P \ {c} ELSE P

ResetPcOnly(c, s, st) ==
    IF s \in Bad /\ st.publisher_pc = c
    THEN [st EXCEPT !.publisher_pc = None]
    ELSE st

ResetAlways(c, s, st) == IF s \in Bad THEN NoState ELSE st

\* on_ice_state of publisher_offer: the publisher's state is reset
PublisherOnIceState(c, s, st) ==
    IF s \in Bad /\ st.publisher_pc = c THEN NoState ELSE st

\* What the emitted iceconnectionstatechange does at once: the Webcam
\* handlers are plain functions and run inside emit; the webrtc-live handler
\* is a coroutine, which emit only schedules.  Several scheduled on_ice
\* coroutines of one connection do what one of them does (close and discard
\* are idempotent), so the model keeps whether one is scheduled.
EmitPcs(c, s) == IF server = "cam" THEN OnIceStatePcs(c, s, pcs) ELSE pcs
EmitState(c, s) ==
    IF server = "cam" /\ role[c] = "publisher"
    THEN PublisherOnIceState(c, s, state)
    ELSE state
EmitTasks(c) ==
    IF server = "live" THEN [iceTasks EXCEPT ![c] = TRUE] ELSE iceTasks

\* The network changes the ICE state of a connection whose answer is set
\* and which is not closed; the change is emitted to the handler.
IceChange(c, s) ==
    /\ Running
    /\ pos[c] = "done"
    /\ ~closed[c]
    /\ s \in IceNext(ice[c])
    /\ ice' = [ice EXCEPT ![c] = s]
    /\ pcs' = EmitPcs(c, s)
    /\ state' = EmitState(c, s)
    /\ iceTasks' = EmitTasks(c)
    /\ UNCHANGED <<res, server, pos, role, closed, iceClosing, broadcaster_tracks,
                   down_video, senders, recvd, ended, lastRecv, shut, atShutdown,
                   waiting, log, lastFrame>>

\* webrtc-live on_ice, up to await pc.close()
LiveOnIce(c) ==
    /\ Running
    /\ iceTasks[c]
    /\ iceTasks' = [iceTasks EXCEPT ![c] = FALSE]
    /\ iceClosing' = IF ice[c] \in Bad
                     THEN [iceClosing EXCEPT ![c] = TRUE]
                     ELSE iceClosing
    /\ UNCHANGED <<res, server, pcs, pos, role, ice, closed, broadcaster_tracks, state,
                   down_video, senders, recvd, ended, lastRecv, shut, atShutdown,
                   waiting, log, lastFrame>>

KeepInPcs(c, P) == P

\* webrtc-live on_ice after await pc.close(): pcs.discard(pc)
OnIceDiscard(c, P) == P \ {c}

\* webrtc-live on_ice from the return of pc.close() to its end. close() leaves
\* the connection closed, and emits the state change if it made one.
LiveOnIceClosed(c) ==
    /\ Running
    /\ iceClosing[c]
    /\ iceClosing' = [iceClosing EXCEPT ![c] = FALSE]
    /\ closed' = [closed EXCEPT ![c] = TRUE]
    /\ ice' = [ice EXCEPT ![c] = "closed"]
    /\ iceTasks' = IF ice[c] # "closed" THEN EmitTasks(c) ELSE iceTasks
    /\ pcs' = OnIceDiscard(c, pcs)
    /\ UNCHANGED <<res, server, pos, role, broadcaster_tracks, state, down_video,
                   senders, recvd, ended, lastRecv, shut, atShutdown, waiting, log,
                   lastFrame>>

CamIceChange(c, s) == server = "cam" /\ IceChange(c, s)

\* ---------------------------------------------------------------- on_shutdown
ListNone(P) == {}

\* coros = [pc.close() for pc in pcs]
Coros(P) == P

ClearNothing(P) == P

\* webrtc-live: pcs.clear(); the Webcam on_shutdown leaves pcs alone
ShutdownPcs(P) == IF server = "live" THEN {} ELSE P

\* on_shutdown up to await asyncio.gather(*coros); with nothing to gather
\* it runs to its end.
ShutdownBegin ==
    /\ shut = "idle"
    /\ atShutdown' = pcs
    /\ waiting' = Coros(pcs)
    /\ IF Coros(pcs) = {}
       THEN shut' = "done" /\ pcs' = ShutdownPcs(pcs)
       ELSE shut' = "gather" /\ pcs' = pcs
    /\ UNCHANGED <<res, server, pos, role, ice, closed, iceTasks, iceClosing,
                   broadcaster_tracks, state, down_video, senders, recvd, ended,
                   lastRecv, log, lastFrame>>

\* one pc.close() of the gather returns
ShutdownClose(c) ==
    /\ Running
    /\ shut = "gather"
    /\ c \in waiting
    /\ waiting' = waiting \ {c}
    /\ closed' = [closed EXCEPT ![c] = TRUE]
    /\ ice' = [ice EXCEPT ![c] = "closed"]
    /\ IF ice[c] # "closed"
       THEN /\ pcs' = EmitPcs(c, "closed")
            /\ state' = EmitState(c, "closed")
            /\ iceTasks' = EmitTasks(c)
       ELSE UNCHANGED <<res, pcs, state, iceTasks>>
    /\ UNCHANGED <<res, server, pos, role, iceClosing, broadcaster_tracks, down_video,
                   senders, recvd, ended, lastRecv, shut, atShutdown, log, lastFrame>>

\* gather returns; on_shutdown runs to its end
ShutdownReturn ==
    /\ Running
    /\ shut = "gather"
    /\ waiting = {}
    /\ shut' = "done"
    /\ pcs' = ShutdownPcs(pcs)
    /\ UNCHANGED <<res, server, pos, role, ice, closed, iceTasks, iceClosing,
                   broadcaster_tracks, state, down_video, senders, recvd, ended,
                   lastRecv, atShutdown, waiting, log, lastFrame>>

\* ---------------------------------------------------------------- webrtc-live
\* offer() from its start to await pc.setRemoteDescription(offer); nothing
\* happens before await request.json() returns.
LiveOffer(r, rl) ==
    /\ Running
    /\ server = "live"
    /\ Fresh(r)
    /\ role' = [role EXCEPT ![r] = rl]
    /\ pcs' = pcs \cup {r}
    /\ senders' = [senders EXCEPT ![r] =
                      IF rl = "viewer" THEN RelayAll(broadcaster_tracks) ELSE <<>>]
    /\ log' = IF rl = "viewer"
              THEN LoggedN(r, "addTrack", Len(broadcaster_tracks))
              ELSE log
    /\ pos' = [pos EXCEPT ![r] = "srd"]
    /\ UNCHANGED <<res, server, ice, closed, iceTasks, iceClosing, broadcaster_tracks,
                   state, down_video, recvd, ended, lastRecv, shut, atShutdown,
                   waiting, lastFrame>>

\* on_track of a broadcaster: broadcaster_tracks[track.kind] = track
OnTrackDict(d, t) == DictSet(d, t[2], t)

AddToViewers(S, t) ==
    [r \in Conn |-> IF role[r] = "viewer" THEN Append(S[r], Relay(t)) ELSE S[r]]

\* on_track of a broadcaster adds the track to no connection
OnTrackSenders(S, t) == S

\* on_ended: broadcaster_tracks.pop(track.kind, None)
OnEndedDict(d, t) == DictPop(d, t[2])

\* The library emits track for the media of the remote description while
\* setRemoteDescription applies it.
LiveOnTrack(r, k) ==
    /\ Running
    /\ server = "live"
    /\ role[r] = "broadcaster"
    /\ pos[r] = "srd"
    /\ ~closed[r]
    /\ <<r, k>> \notin recvd
    /\ broadcaster_tracks' = OnTrackDict(broadcaster_tracks, <<r, k>>)
    /\ recvd' = recvd \cup {<<r, k>>}
    /\ lastRecv' = [lastRecv EXCEPT ![k] = <<r, k>>]
    /\ senders' = OnTrackSenders(senders, <<r, k>>)
    /\ UNCHANGED <<res, server, pcs, pos, role, ice, closed, iceTasks, iceClosing,
                   state, down_video, ended, shut, atShutdown, waiting, log,
                   lastFrame>>

\* A received broadcaster track ends; its on_ended runs.
LiveTrackEnded(t) ==
    /\ Running
    /\ server = "live"
    /\ t \in recvd \ ended
    /\ ended' = ended \cup {t}
    /\ broadcaster_tracks' = OnEndedDict(broadcaster_tracks, t)
    /\ UNCHANGED <<res, server, pcs, pos, role, ice, closed, iceTasks, iceClosing,
                   state, down_video, senders, recvd, lastRecv, shut, atShutdown,
                   waiting, log, lastFrame>>

\* ---------------------------------------------------------------- Webcam
\* publisher_offer() from its start to await pc.setRemoteDescription(offer)
PublisherOffer(r) ==
    /\ Running
    /\ server = "cam"
    /\ Fresh(r)
    /\ role' = [role EXCEPT ![r] = "publisher"]
    /\ pcs' = pcs \cup {r}
    /\ pos' = [pos EXCEPT ![r] = "srd"]
    /\ UNCHANGED <<res, server, ice, closed, iceTasks, iceClosing, broadcaster_tracks,
                   state, down_video, senders, recvd, ended, lastRecv, shut,
                   atShutdown, waiting, log, lastFrame>>

\* on_track of publisher_offer
PublisherOnTrackState(st, t) ==
    IF t[2] = "video" THEN [st EXCEPT !.publisher_video = t]
    ELSE IF t[2] = "audio" THEN [st EXCEPT !.publisher_audio = t]
    ELSE st

PublisherOnTrack(r, k) ==
    /\ Running
    /\ server = "cam"
    /\ role[r] = "publisher"
    /\ pos[r] = "srd"
    /\ ~closed[r]
    /\ <<r, k>> \notin recvd
    /\ state' = PublisherOnTrackState(state, <<r, k>>)
    /\ recvd' = recvd \cup {<<r, k>>}
    /\ UNCHANGED <<res, server, pcs, pos, role, ice, closed, iceTasks, iceClosing,
                   broadcaster_tracks, down_video, senders, ended, lastRecv,
                   shut, atShutdown, waiting, log, lastFrame>>

RejectsByPc(st) == st.publisher_pc = None

\* if state["publisher_video"] is None: return 409
Rejects(st) == st.publisher_video = NoTrack

\* viewer_offer() from its start to the 409 or to await request.json()
ViewerOffer(r, q) ==
    /\ Running
    /\ server = "cam"
    /\ Fresh(r)
    /\ role' = [role EXCEPT ![r] = "viewer"]
    /\ IF Rejects(state)
       THEN /\ pos' = [pos EXCEPT ![r] = "rejected"]
            /\ log' = Logged(r, "error409")
            /\ UNCHANGED <<down_video, res>>
       ELSE /\ pos' = [pos EXCEPT ![r] = "json"]
            /\ log' = log
            /\ res' = [res EXCEPT ![r] = q]
            /\ down_video' = [down_video EXCEPT ![r] =
                                 DownscaleTrack(NoTrack, Sizes(Query(q))[1],
                                                Sizes(Query(q))[2])]
    /\ UNCHANGED <<server, pcs, ice, closed, iceTasks, iceClosing,
                   broadcaster_tracks, state, senders, recvd, ended, lastRecv,
                   shut, atShutdown, waiting, lastFrame>>

\* viewer_offer() from the return of request.json() to
\* await pc.setRemoteDescription(offer)
ViewerCreate(r) ==
    /\ Running
    /\ server = "cam"
    /\ pos[r] = "json"
    /\ pcs' = pcs \cup {r}
    /\ down_video' = [down_video EXCEPT ![r] =
                         DownscaleTrack(state.publisher_video, @.w, @.h)]
    /\ pos' = [pos EXCEPT ![r] = "srd"]
    /\ UNCHANGED <<res, server, role, ice, closed, iceTasks, iceClosing,
                   broadcaster_tracks, state, senders, recvd, ended, lastRecv,
                   shut, atShutdown, waiting, log, lastFrame>>

VideoOnly(dv, st) == <<dv>>

\* pc.addTrack(down_video); if state["publisher_audio"]: pc.addTrack(it)
ViewerTracks(dv, st) ==
    IF st.publisher_audio # NoTrack
    THEN <<dv, Raw(st.publisher_audio)>>
    ELSE <<dv>>

\* viewer_offer() from the return of setRemoteDescription to await createAnswer
ViewerSetRemoteDescription(r) ==
    /\ Running
    /\ server = "cam"
    /\ role[r] = "viewer"
    /\ pos[r] = "srd"
    /\ ~closed[r]
    /\ senders' = [senders EXCEPT ![r] = ViewerTracks(down_video[r], state)]
    /\ log' = [log EXCEPT ![r] = @ \o <<"setRemoteDescription">> \o
                   [i \in 1..Len(ViewerTracks(down_video[r], state)) |-> "addTrack"]]
    /\ pos' = [pos EXCEPT ![r] = "ca"]
    /\ UNCHANGED <<res, server, pcs, role, ice, closed, iceTasks, iceClosing,
                   broadcaster_tracks, state, down_video, recvd, ended, lastRecv,
                   shut, atShutdown, waiting, lastFrame>>

\* A viewer's connection pulls a frame from its DownscaleTrack, whose source
\* returns frame f.
ViewerRecv(r, f) ==
    /\ Running
    /\ server = "cam"
    /\ role[r] = "viewer"
    /\ senders[r] # <<>>
    /\ senders[r][1].source # NoTrack
    /\ ~closed[r]
    /\ lastFrame' = [viewer |-> r, src |-> f, out |-> Recv(senders[r][1], f)]
    /\ UNCHANGED <<res, server, pcs, pos, role, ice, closed, iceTasks, iceClosing,
                   broadcaster_tracks, state, down_video, senders, recvd, ended,
                   lastRecv, shut, atShutdown, waiting, log>>

\* ---------------------------------------------------------------- negotiation
\* await pc.setRemoteDescription(offer) returns (webrtc-live, Webcam publisher)
SetRemoteDescription(r) ==
    /\ Running
    /\ pos[r] = "srd"
    /\ ~(server = "cam" /\ role[r] = "viewer")
    /\ ~closed[r]
    /\ log' = Logged(r, "setRemoteDescription")
    /\ pos' = [pos EXCEPT ![r] = "ca"]
    /\ UNCHANGED <<res, server, pcs, role, ice, closed, iceTasks, iceClosing,
                   broadcaster_tracks, state, down_video, senders, recvd, ended,
                   lastRecv, shut, atShutdown, waiting, lastFrame>>

\* answer = await pc.createAnswer() returns
CreateAnswer(r) ==
    /\ Running
    /\ pos[r] = "ca"
    /\ ~closed[r]
    /\ log' = Logged(r, "createAnswer")
    /\ pos' = [pos EXCEPT ![r] = "sld"]
    /\ UNCHANGED <<res, server, pcs, role, ice, closed, iceTasks, iceClosing,
                   broadcaster_tracks, state, down_video, senders, recvd, ended,
                   lastRecv, shut, atShutdown, waiting, lastFrame>>

ReturnEarly(l) == l \o <<"response">>

\* await pc.setLocalDescription(answer); return web.json_response(...)
Answer(l) == l \o <<"setLocalDescription", "response">>

\* publisher_offer: state["publisher_pc"] = pc
SetPublisherPc(st, r) ==
    IF server = "cam" /\ role[r] = "publisher"
    THEN [st EXCEPT !.publisher_pc = r]
    ELSE st

\* await pc.setLocalDescription(answer) returns; the handler returns the answer
SetLocalDescription(r) ==
    /\ Running
    /\ pos[r] = "sld"
    /\ ~closed[r]
    /\ state' = SetPublisherPc(state, r)
    /\ log' = [log EXCEPT ![r] = Answer(@)]
    /\ pos' = [pos EXCEPT ![r] = "done"]
    /\ UNCHANGED <<res, server, pcs, role, ice, closed, iceTasks, iceClosing,
                   broadcaster_tracks, down_video, senders, recvd, ended,
                   lastRecv, shut, atShutdown, waiting, lastFrame>>

RaiseDiscard(r, P) == P \ {r}

\* what a handler does to pcs when the negotiation step it awaits raises
RaisePcs(r, P) == P

\* The awaited negotiation step raises: no handler catches, the exception
\* leaves the handler.
Raise(r) ==
    /\ Running
    /\ pos[r] \in {"srd", "ca", "sld"}
    /\ pcs' = RaisePcs(r, pcs)
    /\ log' = Logged(r, "exception")
    /\ pos' = [pos EXCEPT ![r] = "raised"]
    /\ UNCHANGED <<res, server, role, ice, closed, iceTasks, iceClosing,
                   broadcaster_tracks, state, down_video, senders, recvd, ended,
                   lastRecv, shut, atShutdown, waiting, lastFrame>>

\* ---------------------------------------------------------------- system
LiveHandlers ==
    \E r \in Conn, rl \in {"broadcaster", "viewer"} : LiveOffer(r, rl)

\* The Webcam handlers up to the negotiation, the viewer's res drawn from R.
CamHandlers(R) ==
    \/ \E r \in Conn : PublisherOffer(r)
    \/ \E r \in Conn, q \in R : ViewerOffer(r, q)
    \/ \E r \in Conn : ViewerCreate(r)
    \/ \E r \in Conn : ViewerSetRemoteDescription(r)

Negotiation ==
    \/ \E r \in Conn : SetRemoteDescription(r)
    \/ \E r \in Conn : CreateAnswer(r)
    \/ \E r \in Conn : SetLocalDescription(r)

\* The life of the connections: every handler, failing negotiations, ICE
\* state changes and their callbacks, and on_shutdown, after whose return the
\* process ends.  Publishers send video, so that viewers are admitted; the
\* tracks of webrtc-live, which no decision about pcs reads, are left out.
Next ==
    \/ LiveHandlers
    \/ CamHandlers({"720"})
    \/ Negotiation
    \/ \E r \in Conn : PublisherOnTrack(r, "video")
    \/ \E r \in Conn : Raise(r)
    \/ \E c \in Conn, s \in Bad \cup {"completed"} : IceChange(c, s)
    \/ \E c \in Conn : LiveOnIce(c)
    \/ \E c \in Conn : LiveOnIceClosed(c)
    \/ ShutdownBegin
    \/ \E c \in Conn : ShutdownClose(c)
    \/ ShutdownReturn

Spec == Init /\ [][Next]_vars

\* The media: every handler with its negotiation succeeding, the track events
\* of both servers, and the ICE state changes of the Webcam server, whose
\* callback resets the publisher.
NextMedia ==
    \/ LiveHandlers
    \/ CamHandlers({"480", "missing"})
    \/ Negotiation
    \/ \E r \in Conn, k \in Kinds : LiveOnTrack(r, k)
    \/ \E t \in Tracks : LiveTrackEnded(t)
    \/ \E r \in Conn, k \in Kinds : PublisherOnTrack(r, k)
    \/ \E c \in Conn, s \in Bad \cup {"completed"} : CamIceChange(c, s)

SpecMedia == Init /\ [][NextMedia]_vars

\* The frames of the Webcam server: publishers of video, viewers with every
\* value of res, and the frames the viewers pull.
NextFrames ==
    \/ CamHandlers(ResParams)
    \/ Negotiation
    \/ \E r \in Conn : PublisherOnTrack(r, "video")
    \/ \E r \in Conn, f \in SrcFrames : ViewerRecv(r, f)

InitFrames == Init /\ server = "cam"

SpecFrames == InitFrames /\ [][NextFrames]_vars

\* ---------------------------------------------------------------- claims
Created(r) == pos[r] \in {"srd", "ca", "sld", "done", "raised"}

\* C1: when on_shutdown has returned, every connection that was in pcs when
\* it ran is closed, and in webrtc-live pcs is empty.
C1_ShutdownClosesRegistry ==
    shut = "done" =>
        /\ \A c \in atShutdown : closed[c]
        /\ server = "live" => pcs = {}

C1_Witness ==
    /\ shut = "done"
    /\ server = "live"
    /\ Cardinality(atShutdown) >= 2

\* C2: a change of a connection's ICE state to failed, disconnected or closed
\* runs the cleanup hook (at once in the Webcam server, scheduled and then
\* run through close() in webrtc-live); when the hook has finished the
\* connection is not in pcs; and a created connection that is not in pcs is
\* never put back.
C2_CleanupOnBadIce ==
    [][\A c \in Conn :
          /\ (ice'[c] # ice[c] /\ ice'[c] \in Bad /\ server = "cam")
                => c \notin pcs'
          /\ (ice'[c] # ice[c] /\ ice'[c] \in Bad /\ server = "live")
                => iceTasks'[c]
          /\ (iceTasks[c] /\ ~iceTasks'[c] /\ ice[c] \in Bad) => iceClosing'[c]
          /\ (iceClosing[c] /\ ~iceClosing'[c]) => c \notin pcs'
          /\ (Created(c) /\ c \notin pcs) => c \notin pcs'
      ]_vars

C2_Witness ==
    \E c \in Conn :
        /\ server = "live"
        /\ ice[c] = "closed"
        /\ closed[c]
        /\ c \notin pcs
        /\ ~iceTasks[c] /\ ~iceClosing[c]
        /\ shut = "idle"

\* C3: for each kind, if the broadcaster track of that kind received last has
\* not ended, broadcaster_tracks[kind] is that track.
C3_LastPublisherWins ==
    \A k \in Kinds :
        (lastRecv[k] # NoTrack /\ lastRecv[k] \notin ended)
            => DictGet(broadcaster_tracks, k) = lastRecv[k]

C5_RejectWithoutPublisher ==
    [][\A r \in Conn :
          /\ (server = "cam" /\ pos[r] = "idle" /\ role'[r] = "viewer"
                /\ state.publisher_video = NoTrack) =>
                /\ pos'[r] = "rejected"
                /\ log'[r] = <<"error409">>
                /\ pcs' = pcs
                /\ state' = state
                /\ senders' = senders
          /\ pos[r] = "rejected" => (pos'[r] = "rejected" /\ r \notin pcs')
      ]_vars

C5_Witness ==
    \E r \in Conn :
        /\ pos[r] = "rejected"
        /\ state.publisher_pc # None
        /\ pcs # {}

\* C6: a webrtc-live viewer handled while broadcaster_tracks is empty gets no
\* track, and no track is added to a connection after its handler created it.
C6_NoTrackAddedLater ==
    [][\A r \in Conn :
          server = "live" =>
              /\ (pos[r] = "idle" /\ role'[r] = "viewer" /\ broadcaster_tracks = <<>>)
                    => senders'[r] = <<>>
              /\ pos[r] # "idle" => senders'[r] = senders[r]
      ]_vars

C6_Witness ==
    \E r \in Conn :
        /\ server = "live"
        /\ role[r] = "viewer"
        /\ pos[r] = "done"
        /\ senders[r] = <<>>
        /\ broadcaster_tracks # <<>>

Steps(l) == SelectSeq(l, LAMBDA e : e # "addTrack")
Count(l, ev) == Len(SelectSeq(l, LAMBDA e : e = ev))

\* C7: an answered request got one response, after setRemoteDescription,
\* createAnswer and setLocalDescription in this order; an unanswered one got
\* none; and every track the server added was added before createAnswer.
C7_AnswerOrder ==
    \A r \in Conn :
        /\ pos[r] = "done" =>
              Steps(log[r]) = <<"setRemoteDescription", "createAnswer",
                                "setLocalDescription", "response">>
        /\ pos[r] # "done" => Count(log[r], "response") = 0
        /\ Count(log[r], "addTrack") = Len(senders[r])
        /\ \A i, j \in DOMAIN log[r] :
              (log[r][i] = "addTrack" /\ log[r][j] = "createAnswer") => i < j

C7_Witness ==
    \E r, v \in Conn :
        /\ server = "cam"
        /\ role[r] = "publisher" /\ pos[r] = "done"
        /\ role[v] = "viewer" /\ pos[v] = "done"
        /\ Len(senders[v]) = 2

\* C8: a raising negotiation step ends the handler with the exception and no
\* answer; the step changes neither pcs nor the publisher state nor any
\* connection, the connection is still registered unless it was closed, and
\* publisher_pc is not the connection of a handler that raised.
C8_RaiseNoRecovery ==
    [][\A r \in Conn :
          /\ (pos[r] \in {"srd", "ca", "sld"} /\ pos'[r] = "raised") =>
                /\ pcs' = pcs
                /\ state' = state
                /\ closed' = closed
                /\ senders' = senders
                /\ log'[r] = Append(log[r], "exception")
                /\ ~closed[r] => r \in pcs'
          /\ pos'[r] = "raised" =>
                /\ state'.publisher_pc # r
                /\ Count(log'[r], "response") = 0
          /\ pos[r] = "raised" => pos'[r] = "raised"
      ]_vars

C8_Witness ==
    \E r \in Conn :
        /\ server = "cam"
        /\ role[r] = "publisher"
        /\ pos[r] = "raised"
        /\ r \in pcs
        /\ state.publisher_video = <<r, "video">>
        /\ state.publisher_pc = None

\* C9: res 1080, 720 and 480 give 1920x1080, 1280x720 and 854x480, a missing
\* or other res gives 1280x720; a frame a viewer's DownscaleTrack returns has
\* the viewer's size and the pts and time_base of the source frame.
C9_ResizeTarget ==
    /\ \A r \in Conn :
          (role[r] = "viewer" /\ pos[r] \notin {"idle", "rejected"}) =>
              /\ res[r] = "1080" => <<down_video[r].w, down_video[r].h>> = <<1920, 1080>>
              /\ res[r] = "720" => <<down_video[r].w, down_video[r].h>> = <<1280, 720>>
              /\ res[r] = "480" => <<down_video[r].w, down_video[r].h>> = <<854, 480>>
              /\ res[r] \notin {"1080", "720", "480"} =>
                    <<down_video[r].w, down_video[r].h>> = <<1280, 720>>
    /\ lastFrame.viewer # None =>
          /\ lastFrame.out.width = down_video[lastFrame.viewer].w
          /\ lastFrame.out.height = down_video[lastFrame.viewer].h
          /\ lastFrame.out.pts = lastFrame.src.pts
          /\ lastFrame.out.time_base = lastFrame.src.time_base

C9_Witness ==
    /\ lastFrame.viewer # None
    /\ res[lastFrame.viewer] = "480"
    /\ lastFrame.out.width = 854
    /\ lastFrame.out.pts = 2

\* C10: an ICE change of the connection that is publisher_pc to failed,
\* closed or disconnected resets publisher_pc, publisher_video and
\* publisher_audio; publisher_video stays None until a video track arrives;
\* and a viewer offer handled while it is None is answered 409.
C10_PublisherReset ==
    [][/\ \A c \in Conn :
             (ice'[c] # ice[c] /\ ice'[c] \in Bad /\ state.publisher_pc = c)
                 => state' = NoState
       /\ (state.publisher_video = NoTrack /\ state'.publisher_video # NoTrack)
             => \E r \in Conn : <<r, "video">> \in recvd' \ recvd
       /\ \A r \in Conn :
             (server = "cam" /\ pos[r] = "idle" /\ role'[r] = "viewer"
                 /\ state.publisher_video = NoTrack)
                 => (pos'[r] = "rejected" /\ log'[r] = <<"error409">>)
      ]_vars

C10_Witness ==
    \E c, v \in Conn :
        /\ role[c] = "publisher"
        /\ pos[c] = "done"
        /\ ice[c] \in Bad
        /\ recvd = {<<c, "video">>, <<c, "audio">>}
        /\ state = NoState
        /\ c < v
        /\ pos[v] = "rejected"

\* C11: in the Webcam server an ICE state change of a connection that is not
\* publisher_pc (a viewer's, or a superseded publisher's) leaves publisher_pc,
\* publisher_video and publisher_audio as they are, removes that connection
\* from pcs if the new state is failed, closed or disconnected, and touches
\* no handler and no track of any connection.
C11_OtherIceKeepsState ==
    [][\A c \in Conn :
          (server = "cam" /\ ice'[c] # ice[c] /\ state.publisher_pc # c) =>
              /\ state' = state
              /\ pcs' = IF ice'[c] \in Bad THEN pcs \ {c} ELSE pcs
              /\ pos' = pos
              /\ senders' = senders
              /\ down_video' = down_video
              /\ recvd' = recvd
      ]_vars

C11_Witness ==
    \E c, d \in Conn :
        /\ c # d
        /\ role[c] = "publisher"
        /\ ice[c] \in Bad
        /\ c \notin pcs
        /\ state.publisher_pc = d
        /\ state.publisher_video = <<c, "video">>
        /\ d \in pcs

\* C12: in the Webcam server a stored publisher_video or publisher_audio
\* arrived on a connection that the cleanup hook has not removed: the ICE
\* state of that connection is not failed, closed or disconnected.
C12_NoStaleTrack ==
    server = "cam" =>
        \A t \in {state.publisher_video, state.publisher_audio} :
            t # NoTrack => (ice[t[1]] \notin Bad /\ t[1] \in pcs)

\* C13: in the Webcam server, when a publisher's handler has finished, its
\* connection is publisher_pc, its ICE state is not failed, closed or
\* disconnected and it delivered a video track, a video track is stored, so
\* that a viewer offer is not answered 409.
C13_LivePublisherHasVideo ==
    \A c \in Conn :
        (/\ server = "cam"
         /\ role[c] = "publisher"
         /\ pos[c] = "done"
         /\ state.publisher_pc = c
         /\ ice[c] \notin Bad
         /\ <<c, "video">> \in recvd)
            => ~Rejects(state)

\* C14: in both servers every connection an offer handler created and that
\* has not been closed is in pcs; so a connection the cleanup hook removed
\* from pcs has been closed.
C14_OpenImpliesRegistered ==
    \A c \in Conn : (Created(c) /\ ~closed[c]) => c \in pcs

\* C15: in webrtc-live no step removes from pcs a connection that is not
\* closed when the step is over; so the pcs.clear() of on_shutdown drops no
\* connection that was added while on_shutdown awaited its gather.
C15_NoUnclosedDrop ==
    [][\A c \in Conn :
          (server = "live" /\ c \in pcs /\ c \notin pcs') => closed'[c]
      ]_vars

====
